---------------------------- MODULE Spec2Model ----------------------------
(***************************************************************************)
(* Model of the three Next.js 15 parameter-migration scripts               *)
(*   scripts/fix_params.py, scripts/migrate-next15.py,                      *)
(*   scripts/migrate-routes.py.                                             *)
(*                                                                          *)
(* A source text is a sequence of lexical tokens (words, punctuation,       *)
(* single whitespace characters, quoted literals); the concatenation of     *)
(* the tokens is the text of the file.  Every regular expression of the     *)
(* scripts is translated to a matcher over that sequence: a matcher takes   *)
(* the text and a start index and returns the index just after the match,   *)
(* or 0 when the expression does not match there.                           *)
(***************************************************************************)
EXTENDS Integers, Sequences, FiniteSets, TLC

(***************************************************************************)
(* Lexical layer                                                           *)
(***************************************************************************)
\* The characters of \w+ : identifiers and keywords, one token each.
Words ==
    { "params", "const", "await", "function", "export", "default", "async",
      "import", "from", "useParams", "Promise", "string", "as", "return",
      "interface", "Params", "RouteParams", "context", "Page", "GET",
      "id", "slug", "f", "db", "req", "x" }

\* \s : one token per whitespace character.
IsWS(t) == t \in {" ", "\n"}

\* The client marker directive, in either quoting.
IsDirective(t) == t \in {"'use client'", "\"use client\""}

\* s[i], or "" outside the text.
At(s, i) == IF i >= 1 /\ i <= Len(s) THEN s[i] ELSE ""

MinOf(S) == CHOOSE k \in S : \A m \in S : k <= m

\* The end of the run of whitespace that starts at i (i when there is none).
SkipWS(s, i) == MinOf({k \in i..(Len(s) + 1) : ~IsWS(At(s, k))})

\* \s* and \s+ from position i (0: the match has already failed).
WS0(s, i) == IF i > 0 THEN SkipWS(s, i) ELSE 0
WS1(s, i) == IF i > 0 /\ IsWS(At(s, i)) THEN SkipWS(s, i) ELSE 0

\* A literal token, and \w+.
Tok(s, i, t) == IF i > 0 /\ At(s, i) = t THEN i + 1 ELSE 0
Word(s, i) == IF i > 0 /\ At(s, i) \in Words THEN i + 1 ELSE 0

\* Index of the first token t at or after i; 0 when there is none.
Find(s, t, i) ==
    LET ks == {k \in i..Len(s) : s[k] = t}
    IN  IF i <= 0 \/ ks = {} THEN 0 ELSE MinOf(ks)

\* [^t]*t  and  [^t]+t : the index after the first t, 0 when it fails.
UpTo(s, i, t) == LET k == Find(s, t, i) IN IF k > 0 THEN k + 1 ELSE 0
UpTo1(s, i, t) == LET k == Find(s, t, i) IN IF k > i THEN k + 1 ELSE 0

Slice(s, i, j) == SubSeq(s, i, j - 1)
From(s, i) == SubSeq(s, i, Len(s))

\* `sub in s` for a token sequence sub.
IsAt(s, sub, i) == i + Len(sub) - 1 <= Len(s) /\ Slice(s, i, i + Len(sub)) = sub
Contains(s, sub) == \E i \in 1..Len(s) : IsAt(s, sub, i)

\* str.replace(old, new): every non-overlapping occurrence, left to right.
RECURSIVE ReplaceAll(_, _, _, _)
ReplaceAll(s, old, new, i) ==
    LET ks == {k \in i..Len(s) : IsAt(s, old, k)}
    IN  IF ks = {} THEN From(s, i)
        ELSE Slice(s, i, MinOf(ks)) \o new
                \o ReplaceAll(s, old, new, MinOf(ks) + Len(old))

RECURSIVE Concat(_)
Concat(ss) == IF ss = <<>> THEN <<>> ELSE Head(ss) \o Concat(Tail(ss))

(***************************************************************************)
(* scripts/fix_params.py : the regular expressions                         *)
(***************************************************************************)
\* params\?\.(\w+)                                   (find_params_usage)
RE_params_usage(s, i) == Word(s, Tok(s, Tok(s, i, "params"), "?."))

\* params\?\.{param}(?=[\s),;]|$)                    (the usage-site rewrite)
RE_usage_of(param, s, i) ==
    LET e == Tok(s, Tok(s, Tok(s, i, "params"), "?."), param)
    IN  IF e > 0 /\ (e > Len(s) \/ s[e] \in {" ", "\n", ")", ",", ";"})
        THEN e ELSE 0

\* const\s+params\s*=\s*useParams\(\)
RE_hook_decl(s, i) ==
    Tok(s, Tok(s, Tok(s, WS0(s, Tok(s, WS0(s, Tok(s, WS1(s,
        Tok(s, i, "const")), "params")), "=")), "useParams"), "("), ")")

\* {\s*params\s*}:\s*{\s*params:
RE_props_decl(s, i) ==
    Tok(s, Tok(s, WS0(s, Tok(s, WS0(s, Tok(s, Tok(s, WS0(s, Tok(s, WS0(s,
        Tok(s, i, "{")), "params")), "}"), ":")), "{")), "params"), ":")

\* ('use client'|"use client")\s*;?\n
\* \s* is greedy and gives characters back until ;?\n can follow it.
RE_directive(s, i) ==
    IF ~IsDirective(At(s, i)) THEN 0
    ELSE LET w == SkipWS(s, i + 1)
             semi == Tok(s, Tok(s, w, ";"), "\n")
             nls == {k \in (i + 1)..(w - 1) : s[k] = "\n"}
         IN  IF semi > 0 THEN semi
             ELSE IF nls # {} THEN (CHOOSE k \in nls : \A m \in nls : m <= k) + 1
             ELSE 0

\* (export\s+default\s+)?  : the end of group 1, i when it does not take part.
RE_export_default(s, i) ==
    LET a == WS1(s, Tok(s, WS1(s, Tok(s, i, "export")), "default"))
    IN  IF a > 0 THEN a ELSE i

\* (export\s+default\s+)?(?:async\s+)?function\s+(\w+)\s*\([^)]*\)
RE_func_name_at(s, i) ==
    LET j1 == RE_export_default(s, i)
        b == WS1(s, Tok(s, j1, "async"))
        j2 == IF b > 0 THEN b ELSE j1
    IN  WS1(s, Tok(s, j2, "function"))
RE_func(s, i) ==
    UpTo(s, Tok(s, WS0(s, Word(s, RE_func_name_at(s, i))), "("), ")")

\* (export\s+default\s+)?(?:async\s+)?function\s+\w+\s*\([^)]*\)\s*{
RE_func_open(s, i) == Tok(s, WS0(s, RE_func(s, i)), "{")

(***************************************************************************)
(* scripts/migrate-next15.py : the regular expressions                     *)
(***************************************************************************)
\* (?:Route)?Params
RE_params_type(s, i) ==
    IF i > 0 /\ At(s, i) \in {"Params", "RouteParams"} THEN i + 1 ELSE 0

\* interface\s+(?:Route)?Params\s*{[^}]*}
RE_interface(s, i) ==
    UpTo(s, Tok(s, WS0(s, RE_params_type(s, WS1(s, Tok(s, i, "interface")))),
                "{"), "}")

\* \s*([^}]+)\}  from b, the index after an opening brace: <<start of the
\* group, index of the closing brace>>, <<0, 0>> when it fails.  \s* takes
\* all the whitespace and gives one character back when nothing else is left
\* for the group.
BraceGroup(s, b) ==
    LET g == WS0(s, b)
        c == Find(s, "}", g)
    IN  IF c = 0 THEN <<0, 0>>
        ELSE IF c > g THEN <<g, c>>
        ELSE IF g > b THEN <<g - 1, c>>
        ELSE <<0, 0>>

\* \{\s*params\s*\}:\s*\{\s*params:\s*\{\s*([^}]+)\}\s*\}
RE_sig_inline_group(s, i) ==
    BraceGroup(s, Tok(s, WS0(s, RE_props_decl(s, i)), "{"))
RE_sig_inline(s, i) ==
    LET c == RE_sig_inline_group(s, i)[2]
    IN  IF c = 0 THEN 0 ELSE Tok(s, WS0(s, c + 1), "}")

\* \{\s*params\s*\}:\s*(?:Route)?Params
RE_sig_named(s, i) ==
    RE_params_type(s, WS0(s, Tok(s, Tok(s, WS0(s, Tok(s, WS0(s,
        Tok(s, i, "{")), "params")), "}"), ":")))

\* const\s*\{([^}]+)\}\s*=\s*params;
RE_destructure_close(s, i) ==
    LET b == Tok(s, WS0(s, Tok(s, i, "const")), "{")
        c == Find(s, "}", b)
    IN  IF c > b THEN c ELSE 0
RE_destructure(s, i) ==
    LET c == RE_destructure_close(s, i)
    IN  IF c = 0 THEN 0
        ELSE Tok(s, Tok(s, WS0(s, Tok(s, WS0(s, c + 1), "=")), "params"), ";")

\* params\.(\w+)
RE_member(s, i) == Word(s, Tok(s, Tok(s, i, "params"), "."))

\* (export\s+default\s+)function\s+Page
RE_page_decl(s, i) ==
    LET a == RE_export_default(s, i)
    IN  IF a = i THEN 0 ELSE Tok(s, WS1(s, Tok(s, a, "function")), "Page")

\* import[^;]+;\n   and   (import[^;]+;\n)+
RE_import_line(s, i) ==
    LET k == Find(s, ";", Tok(s, i, "import"))
    IN  IF k > i + 1 /\ At(s, k + 1) = "\n" THEN k + 2 ELSE 0
RECURSIVE RE_imports(_, _)
RE_imports(s, i) ==
    LET e == RE_import_line(s, i)
    IN  IF e = 0 THEN 0
        ELSE LET more == RE_imports(s, e) IN IF more > 0 THEN more ELSE e

\* export\s+default\s+function\s+Page\s*\(
RE_page_paren(s, i) ==
    LET a == RE_export_default(s, i)
    IN  IF a = i THEN 0
        ELSE Tok(s, WS0(s, Tok(s, WS1(s, Tok(s, a, "function")), "Page")), "(")

\* export\s+default\s+function\s+Page\s*\(\{\s*params\s*\}:[^)]+\)
RE_page_props(s, i) ==
    UpTo1(s, Tok(s, Tok(s, WS0(s, Tok(s, WS0(s, Tok(s, RE_page_paren(s, i),
        "{")), "params")), "}"), ":"), ")")

\* export\s+default\s+function\s+Page\s*\([^)]*\)\s*{
RE_page_open(s, i) == Tok(s, WS0(s, UpTo(s, RE_page_paren(s, i), ")")), "{")

\* ^\s+ with re.MULTILINE: whitespace at the start of the text or of a line.
RE_indent(s, i) ==
    IF (i = 1 \/ At(s, i - 1) = "\n") /\ IsWS(At(s, i)) THEN SkipWS(s, i) ELSE 0

(***************************************************************************)
(* scripts/migrate-routes.py : the regular expressions                     *)
(***************************************************************************)
\* {\s*params\s*}:\s*{\s*params:\s*Promise<([^>]+)>}
RE_r_promise_close(s, i) ==
    LET b == Tok(s, Tok(s, WS0(s, RE_props_decl(s, i)), "Promise"), "<")
        c == Find(s, ">", b)
    IN  IF c > b THEN c ELSE 0
RE_r_promise(s, i) ==
    LET c == RE_r_promise_close(s, i)
    IN  IF c = 0 THEN 0 ELSE Tok(s, c + 1, "}")

\* {\s*params\s*}:\s*{\s*params:\s*{\s*([^}]+)\s*}\s*}
\* [^}]+ is greedy: it runs to the closing brace and leaves \s* empty.
RE_r_inline(s, i) ==
    LET c == RE_sig_inline_group(s, i)[2]
    IN  IF c = 0 THEN 0 ELSE Tok(s, WS0(s, c + 1), "}")

\* const\s*{\s*([^}]+)\s*}\s*=\s*(?:await\s+)?params
RE_r_destructure_group(s, i) ==
    BraceGroup(s, Tok(s, WS0(s, Tok(s, i, "const")), "{"))
RE_r_destructure(s, i) ==
    LET c == RE_r_destructure_group(s, i)[2]
        eq == IF c = 0 THEN 0 ELSE WS0(s, Tok(s, WS0(s, c + 1), "="))
        aw == WS1(s, Tok(s, eq, "await"))
    IN  Tok(s, IF aw > 0 THEN aw ELSE eq, "params")

\* await\s+params
RE_r_await(s, i) == Tok(s, WS1(s, Tok(s, i, "await")), "params")

(***************************************************************************)
(* re.search and re.sub.  The matches of one expression in a text s are    *)
(* given as a table: ends[k] is the index after the match that starts at   *)
(* k (0: no match starts there), repls[k] the replacement of that match.   *)
(***************************************************************************)
\* re.search from index i: the start of the leftmost match, 0 without one.
SearchFrom(ends, i) ==
    LET ks == {k \in i..Len(ends) : ends[k] > 0}
    IN  IF ks = {} THEN 0 ELSE MinOf(ks)

\* re.sub: the leftmost non-overlapping matches, replaced left to right.
RECURSIVE SubFrom(_, _, _, _)
SubFrom(s, ends, repls, i) ==
    LET k == SearchFrom(ends, i)
    IN  IF k = 0 THEN From(s, i)
        ELSE Slice(s, i, k) \o repls[k] \o SubFrom(s, ends, repls, ends[k])

Range(q) == { q[k] : k \in 1..Len(q) }

\* "import { useParams } from 'next/navigation';\n"
ImportLine ==
    << "import", " ", "{", " ", "useParams", " ", "}", " ", "from", " ",
       "'next/navigation'", ";", "\n" >>

\* "{ params }: { params: Promise<"   and   "context: { params: "
PromiseSigHead ==
    << "{", " ", "params", " ", "}", ":", " ", "{", " ", "params", ":", " ",
       "Promise", "<" >>
ContextSigHead == << "context", ":", " ", "{", " ", "params", ":", " " >>

(***************************************************************************)
(* scripts/fix_params.py : the rewrite functions                           *)
(***************************************************************************)
is_client_component(content) == \E i \in 1..Len(content) : IsDirective(content[i])

\* re.findall(r'params\?\.(\w+)', content): the captured names, in textual order.
RECURSIVE FindAllUsage(_, _)
FindAllUsage(s, i) ==
    LET k == SearchFrom([j \in 1..Len(s) |-> RE_params_usage(s, j)], i)
    IN  IF k = 0 THEN << >>
        ELSE << s[k + 2] >> \o FindAllUsage(s, k + 3)

\* list(set(re.findall(...))): the distinct names, in the iteration order of
\* a set of str.  That order follows the strings' hashes, which are salted
\* per process: `order` is the order this process's salt gives the names.
find_params_usage(content, order) ==
    LET found == Range(FindAllUsage(content, 1))
    IN  SelectSeq(order, LAMBDA n : n \in found)

has_params_import(content) ==
    /\ "useParams" \in Range(content)
    /\ \E t \in Range(content) : t \in {"'next/navigation'", "\"next/navigation\""}

has_params_declaration(content) ==
    \E k \in 1..Len(content) :
        RE_hook_decl(content, k) > 0 \/ RE_props_decl(content, k) > 0

\* re.sub(r"('use client'|\"use client\")\s*;?\n", r"\1;\n" + import_line, content)
Sub_directive(s) ==
    SubFrom(s, [k \in 1..Len(s) |-> RE_directive(s, k)],
            [k \in 1..Len(s) |-> << s[k], ";", "\n" >> \o ImportLine], 1)

add_use_params_import(content) ==
    IF ~has_params_import(content)
    THEN IF is_client_component(content)
         THEN Sub_directive(content)
         ELSE ImportLine \o content
    ELSE content

\* re.sub(rf'params\?\.{param}(?=[\s),;]|$)', param, content)
Sub_usage_of(param, s) ==
    SubFrom(s, [k \in 1..Len(s) |-> RE_usage_of(param, s, k)],
            [k \in 1..Len(s) |-> << param >>], 1)

\* for param in params_list: content = re.sub(...)
RECURSIVE ReplaceUsages(_, _)
ReplaceUsages(content, params_list) ==
    IF params_list = << >> THEN content
    ELSE ReplaceUsages(Sub_usage_of(Head(params_list), content), Tail(params_list))

\* "".join(f"  const {param} = params?.{param} as string;\n" for param in params_list)
RECURSIVE variables_decl(_)
variables_decl(params_list) ==
    IF params_list = << >> THEN << >>
    ELSE << " ", " ", "const", " ", Head(params_list), " ", "=", " ", "params",
            "?.", Head(params_list), " ", "as", " ", "string", ";", "\n" >>
         \o variables_decl(Tail(params_list))

\* "\n  const params = useParams();\n"
hook_decl_text ==
    << "\n", " ", " ", "const", " ", "params", " ", "=", " ", "useParams",
       "(", ")", ";", "\n" >>

\* content[:insert_pos] + params_decl + variables_decl + content[insert_pos:]
\* at the end of the first match of the function pattern, when there is one.
insert_hook(content, params_list) ==
    LET ends == [k \in 1..Len(content) |-> RE_func_open(content, k)]
        m == SearchFrom(ends, 1)
    IN  IF m = 0 THEN content
        ELSE Slice(content, 1, ends[m]) \o hook_decl_text
                \o variables_decl(params_list) \o From(content, ends[m])

fix_client_component(content, params_list) ==
    ReplaceUsages(IF has_params_declaration(content) THEN content
                  ELSE insert_hook(content, params_list),
                  params_list)

\* ", ".join(f"{param}: string" for param in params_list)  and
\* ', '.join(params_list)
RECURSIVE JoinTyped(_)
JoinTyped(params_list) ==
    IF Len(params_list) = 1 THEN << Head(params_list), ":", " ", "string" >>
    ELSE << Head(params_list), ":", " ", "string", ",", " " >>
            \o JoinTyped(Tail(params_list))
RECURSIVE JoinNames(_)
JoinNames(params_list) ==
    IF Len(params_list) = 1 THEN << Head(params_list) >>
    ELSE << Head(params_list), ",", " " >> \o JoinNames(Tail(params_list))

\* f"{{ params }}: {{ params: Promise<{params_type}> }}"
params_prop(params_list) ==
    PromiseSigHead \o << "{", " " >> \o JoinTyped(params_list)
        \o << " ", "}", ">", " ", "}" >>

\* f"\n  const {{ {', '.join(params_list)} }} = await params;\n"
params_decl(params_list) ==
    << "\n", " ", " ", "const", " ", "{", " " >> \o JoinNames(params_list)
        \o << " ", "}", " ", "=", " ", "await", " ", "params", ";", "\n" >>

\* content.replace('{', '{' + params_decl, 1): after the first brace of the text.
InsertAfterFirstBrace(content, decl) ==
    LET b == Find(content, "{", 1)
    IN  IF b = 0 THEN content
        ELSE Slice(content, 1, b + 1) \o decl \o From(content, b + 1)

\* f"{func_match.group(1) or ''}async function {func_match.group(2)}({params_prop})"
new_sig(content, m, params_list) ==
    Slice(content, m, RE_export_default(content, m))
        \o << "async", " ", "function", " ", content[RE_func_name_at(content, m)], "(" >>
        \o params_prop(params_list) \o << ")" >>

\* content[:func_match.start()] + new_sig + content[func_match.end():]
replace_signature(content, params_list) ==
    LET ends == [k \in 1..Len(content) |-> RE_func(content, k)]
        m == SearchFrom(ends, 1)
    IN  IF m = 0 THEN << >>
        ELSE Slice(content, 1, m) \o new_sig(content, m, params_list)
                \o From(content, ends[m])

fix_server_component(content, params_list) ==
    IF \E k \in 1..Len(content) : RE_func(content, k) > 0
    THEN ReplaceUsages(InsertAfterFirstBrace(replace_signature(content, params_list),
                                             params_decl(params_list)),
                       params_list)
    ELSE content

\* 'params?' in content
has_params_marker(content) ==
    \E i \in 1..Len(content) :
        content[i] = "params" /\ At(content, i + 1) \in {"?.", "?"}

\* fix_file without its I/O: the text it would write (content when it returns
\* without writing).
fix_params_rewrite(content, order) ==
    IF ~has_params_marker(content) \/ find_params_usage(content, order) = << >>
    THEN content
    ELSE IF is_client_component(content)
    THEN fix_client_component(add_use_params_import(content),
                              find_params_usage(content, order))
    ELSE fix_server_component(content, find_params_usage(content, order))

(***************************************************************************)
(* scripts/migrate-next15.py : the rewrite functions                       *)
(***************************************************************************)
\* re.sub(r'interface\s+(?:Route)?Params\s*{[^}]*}', '', content)
Sub_interface(s) ==
    SubFrom(s, [k \in 1..Len(s) |-> RE_interface(s, k)],
            [k \in 1..Len(s) |-> << >>], 1)

\* r'{ params }: { params: Promise<{\1}> }'
Repl_sig_inline(s, k) ==
    PromiseSigHead \o << "{" >>
        \o Slice(s, RE_sig_inline_group(s, k)[1], RE_sig_inline_group(s, k)[2])
        \o << "}", ">", " ", "}" >>
Sub_sig_inline(s) ==
    SubFrom(s, [k \in 1..Len(s) |-> RE_sig_inline(s, k)],
            [k \in 1..Len(s) |-> Repl_sig_inline(s, k)], 1)

\* r'{ params }: { params: Promise<{ id: string }> }'
Sub_sig_named(s) ==
    SubFrom(s, [k \in 1..Len(s) |-> RE_sig_named(s, k)],
            [k \in 1..Len(s) |->
                PromiseSigHead \o << "{", " ", "id", ":", " ", "string", " ",
                                     "}", ">", " ", "}" >>], 1)

\* r'const {\1} = await params;'
Repl_destructure(s, k) ==
    << "const", " ", "{" >>
        \o Slice(s, Tok(s, WS0(s, k + 1), "{"), RE_destructure_close(s, k))
        \o << "}", " ", "=", " ", "await", " ", "params", ";" >>
Sub_destructure(s) ==
    SubFrom(s, [k \in 1..Len(s) |-> RE_destructure(s, k)],
            [k \in 1..Len(s) |-> Repl_destructure(s, k)], 1)

\* re.sub(r'params\.(\w+)', r'(await params).\1', content)
Sub_member_await(s) ==
    SubFrom(s, [k \in 1..Len(s) |-> RE_member(s, k)],
            [k \in 1..Len(s) |->
                << "(", "await", " ", "params", ")", ".", At(s, k + 2) >>], 1)

\* re.sub(r'params\.(\w+)', r'params?.\1', content)
Sub_member_optional(s) ==
    SubFrom(s, [k \in 1..Len(s) |-> RE_member(s, k)],
            [k \in 1..Len(s) |-> << "params", "?.", At(s, k + 2) >>], 1)

\* re.sub(r'(export\s+default\s+)function\s+Page', r'\1async function Page', content)
Sub_page_decl(s) ==
    SubFrom(s, [k \in 1..Len(s) |-> RE_page_decl(s, k)],
            [k \in 1..Len(s) |->
                Slice(s, k, RE_export_default(s, k))
                    \o << "async", " ", "function", " ", "Page" >>], 1)

\* re.sub(r'export\s+default\s+function\s+Page\s*\(\{\s*params\s*\}:[^)]+\)',
\*        'export default function Page()', content)
Sub_page_props(s) ==
    SubFrom(s, [k \in 1..Len(s) |-> RE_page_props(s, k)],
            [k \in 1..Len(s) |->
                << "export", " ", "default", " ", "function", " ", "Page",
                   "(", ")" >>], 1)

fix_route_handler(content) ==
    Sub_member_await(Sub_destructure(Sub_sig_named(Sub_sig_inline(
        Sub_interface(content)))))

fix_server_page(content) ==
    Sub_destructure(Sub_sig_inline(Sub_page_decl(content)))

\* content.replace(block, block + extra): extra after every occurrence of the
\* block that starts at m and ends before e.
AppendToBlock(content, m, e, extra) ==
    ReplaceAll(content, Slice(content, m, e), Slice(content, m, e) \o extra, 1)

\* "Add useParams import if not present"
add_import_after_imports(content) ==
    LET ends == [k \in 1..Len(content) |-> RE_imports(content, k)]
        m == SearchFrom(ends, 1)
    IN  IF "useParams" \in Range(content) THEN content
        ELSE IF m > 0 THEN AppendToBlock(content, m, ends[m], ImportLine)
        ELSE ImportLine \o content

\* re.search(r'^\s+', rest, re.MULTILINE): the whitespace found, "  " without.
indent_of(rest) ==
    LET ends == [k \in 1..Len(rest) |-> RE_indent(rest, k)]
        m == SearchFrom(ends, 1)
    IN  IF m > 0 THEN Slice(rest, m, ends[m]) ELSE << " ", " " >>

\* "Add useParams hook if not present"
add_hook_call(content) ==
    LET ends == [k \in 1..Len(content) |-> RE_page_open(content, k)]
        m == SearchFrom(ends, 1)
    IN  IF Contains(content, << "useParams", "(", ")" >>) \/ m = 0 THEN content
        ELSE AppendToBlock(content, m, ends[m],
                           << "\n" >> \o indent_of(From(content, ends[m]))
                               \o << "const", " ", "params", " ", "=", " ",
                                     "useParams", "(", ")", ";" >>)

fix_client_page(content) ==
    IF ~is_client_component(content) THEN content
    ELSE Sub_member_optional(add_hook_call(Sub_page_props(
             add_import_after_imports(content))))

\* process_file without its I/O: new_content, by the file's name.
next15_rewrite(name, content) ==
    IF name = "route.ts" THEN fix_route_handler(content)
    ELSE IF name = "page.tsx"
    THEN IF is_client_component(content) THEN fix_client_page(content)
         ELSE fix_server_page(content)
    ELSE content

(***************************************************************************)
(* scripts/migrate-routes.py : the rewrite function                        *)
(***************************************************************************)
\* f'context: {{ params: {m.group(1)} }}'
Repl_r_promise(s, k) ==
    ContextSigHead
        \o Slice(s, Tok(s, Tok(s, WS0(s, RE_props_decl(s, k)), "Promise"), "<"),
                 RE_r_promise_close(s, k))
        \o << " ", "}" >>
Sub_r_promise(s) ==
    SubFrom(s, [k \in 1..Len(s) |-> RE_r_promise(s, k)],
            [k \in 1..Len(s) |-> Repl_r_promise(s, k)], 1)

\* f'context: {{ params: {{ {m.group(1)} }} }}'
Repl_r_inline(s, k) ==
    ContextSigHead \o << "{", " " >>
        \o Slice(s, RE_sig_inline_group(s, k)[1], RE_sig_inline_group(s, k)[2])
        \o << " ", "}", " ", "}" >>
Sub_r_inline(s) ==
    SubFrom(s, [k \in 1..Len(s) |-> RE_r_inline(s, k)],
            [k \in 1..Len(s) |-> Repl_r_inline(s, k)], 1)

\* f'const {{ {m.group(1)} }} = context.params'
Repl_r_destructure(s, k) ==
    << "const", " ", "{", " " >>
        \o Slice(s, RE_r_destructure_group(s, k)[1], RE_r_destructure_group(s, k)[2])
        \o << " ", "}", " ", "=", " ", "context", ".", "params" >>
Sub_r_destructure(s) ==
    SubFrom(s, [k \in 1..Len(s) |-> RE_r_destructure(s, k)],
            [k \in 1..Len(s) |-> Repl_r_destructure(s, k)], 1)

\* re.sub(r'await\s+params', 'params', new_content)
Sub_r_await(s) ==
    SubFrom(s, [k \in 1..Len(s) |-> RE_r_await(s, k)],
            [k \in 1..Len(s) |-> << "params" >>], 1)

\* process_file without its read: the four substitutions, in order.
routes_rewrite(content) ==
    Sub_r_await(Sub_r_destructure(Sub_r_inline(Sub_r_promise(content))))

(***************************************************************************)
(* The file tree: the texts a file may hold before the run, and the paths  *)
(***************************************************************************)
\* A server page using params?.id and params?.slug.x below an import.
TextServerWithImport ==
    << "import", " ", "{", " ", "db", " ", "}", " ", "from", " ", "'x'", ";",
       "\n", "export", " ", "default", " ", "function", " ", "Page", "(", ")",
       " ", "{", "\n", " ", " ", "return", " ", "f", "(", "params", "?.",
       "id", ",", " ", "params", "?.", "slug", ".", "x", ")", ";", "\n", "}",
       "\n" >>

\* A server page using params?.id, with no import.
TextServerPlain ==
    << "export", " ", "default", " ", "function", " ", "Page", "(", ")", " ",
       "{", "\n", " ", " ", "return", " ", "f", "(", "params", "?.", "id",
       ")", ";", "\n", "}", "\n" >>

\* A client page using params?.slug, with no hook.
TextClientOptional ==
    << "'use client'", ";", "\n", "export", " ", "default", " ", "function",
       " ", "Page", "(", ")", " ", "{", "\n", " ", " ", "return", " ", "f",
       "(", "params", "?.", "slug", ")", ";", "\n", "}", "\n" >>

\* A route handler with the synchronous parameter bag.
TextRouteSync ==
    << "export", " ", "async", " ", "function", " ", "GET", "(", "req", ",",
       " ", "{", " ", "params", " ", "}", ":", " ", "{", " ", "params", ":",
       " ", "{", " ", "id", ":", " ", "string", " ", "}", " ", "}", ")", " ",
       "{", "\n", " ", " ", "const", " ", "{", " ", "id", " ", "}", " ", "=",
       " ", "params", ";", "\n", " ", " ", "return", " ", "f", "(", "params",
       ".", "id", ")", ";", "\n", "}", "\n" >>

\* The same handler with the Promise-wrapped bag (already migrated).
TextRouteAsync ==
    << "export", " ", "async", " ", "function", " ", "GET", "(", "req", ",",
       " ", "{", " ", "params", " ", "}", ":", " ", "{", " ", "params", ":",
       " ", "Promise", "<", "{", "id", ":", " ", "string", " ", "}", ">", " ",
       "}", ")", " ", "{", "\n", " ", " ", "const", " ", "{", " ", "id", " ",
       "}", " ", "=", " ", "await", " ", "params", ";", "\n", " ", " ",
       "return", " ", "f", "(", "(", "await", " ", "params", ")", ".", "id",
       ")", ";", "\n", "}", "\n" >>

\* A server page with the synchronous parameter bag.
TextServerPageSync ==
    << "export", " ", "default", " ", "function", " ", "Page", "(", "{", " ",
       "params", " ", "}", ":", " ", "{", " ", "params", ":", " ", "{", " ",
       "slug", ":", " ", "string", " ", "}", " ", "}", ")", " ", "{", "\n",
       " ", " ", "const", " ", "{", " ", "slug", " ", "}", " ", "=", " ",
       "params", ";", "\n", " ", " ", "return", " ", "f", "(", "slug", ")",
       ";", "\n", "}", "\n" >>

\* A client page taking params as a prop.
TextClientPageSync ==
    << "'use client'", ";", "\n", "export", " ", "default", " ", "function",
       " ", "Page", "(", "{", " ", "params", " ", "}", ":", " ", "{", " ",
       "params", ":", " ", "{", " ", "slug", ":", " ", "string", " ", "}",
       " ", "}", ")", " ", "{", "\n", " ", " ", "return", " ", "f", "(",
       "params", ".", "slug", ")", ";", "\n", "}", "\n" >>

\* A file that does not mention params.
TextNoParams ==
    << "export", " ", "const", " ", "x", " ", "=", " ", "f", "(", "db", ")",
       ";", "\n" >>

Corpus ==
    { TextServerWithImport, TextServerPlain, TextClientOptional, TextRouteSync,
      TextRouteAsync, TextServerPageSync, TextClientPageSync, TextNoParams }

\* The candidate files of the tree, in the order discovery yields them.
AllPaths ==
    << [dir |-> "app/[a]", name |-> "route.ts"],
       [dir |-> "app/[b]", name |-> "route.ts"],
       [dir |-> "app/[a]", name |-> "page.tsx"] >>

\* At most MaxFiles files in the tree; timestamps 0..MaxClock (one per second).
MaxFiles == 2
MaxClock == 2

Scripts == {"fix_params", "migrate-next15", "migrate-routes"}

\* The iteration orders a set of the names {id, slug} can have.
HashOrders == { << "id", "slug" >>, << "slug", "id" >> }

VARIABLES
    script,         \* which of the three scripts runs
    dry_run,        \* "--dry-run" in sys.argv (read by migrate-routes only)
    order,          \* this process's iteration order of a set of names
    tree,           \* the paths that exist under the app directory
    disk0,          \* the files' contents before the run
    disk,           \* the files' contents
    backup_dir,     \* whether the run's backup directory exists
    backups,        \* the backup directory: backup path -> content
    now,            \* datetime.now(), in seconds
    pc,             \* the statement the run is at
    files,          \* the discovered list
    idx,            \* the loop's position in it
    content,        \* the text read from the current file
    new_content,    \* the text rewritten from it
    params_list,    \* fix_file's params_list
    backup_path,    \* process_file's result["backup"]
    files_fixed,    \* fix_params: (filepath, params_fixed) of the files written
    modified_files, \* migrate-next15: results["modified_files"]
    errors,         \* migrate-next15: results["errors"]
    success_count,  \* migrate-routes: success_count
    console,        \* the error lines printed while the loop runs
    summary,        \* what the final summary and report hold
    exit_code,      \* sys.exit's argument, -1 while running
    attempted,      \* history: the list positions whose processing began
    raised,         \* history: (path, error) of every exception raised
    backed_up,      \* history: the paths a backup copy was made of
    written,        \* history: the paths opened for writing
    unchanged,      \* history: the paths whose rewritten text equalled the text read
    torn            \* history: the paths opened for writing whose text is not fully on disk

vars ==
    << script, dry_run, order, tree, disk0, disk, backup_dir, backups, now, pc,
       files, idx, content, new_content, params_list, backup_path, files_fixed,
       modified_files, errors, success_count, console, summary, exit_code,
       attempted, raised, backed_up, written, unchanged, torn >>

config == << script, dry_run, order, tree, disk0 >>
locals == << content, new_content, params_list, backup_path >>
history == << attempted, raised, backed_up, written, unchanged, torn >>

NoBackup == [name |-> "", stamp |-> -1, ext |-> ""]
NoSummary == [printed |-> FALSE, modified |-> << >>, errors |-> << >>, failed |-> 0]

Init ==
    /\ script \in Scripts
    /\ dry_run \in (IF script = "migrate-routes" THEN BOOLEAN ELSE {FALSE})
    /\ order \in (IF script = "fix_params" THEN HashOrders ELSE {<< "id", "slug" >>})
    /\ tree \in {t \in SUBSET Range(AllPaths) : Cardinality(t) <= MaxFiles}
    /\ disk0 \in [tree -> Corpus]
    /\ disk = disk0
    /\ backup_dir = FALSE
    /\ backups = << >>
    /\ now = 0
    /\ pc = "main"
    /\ files = << >>
    /\ idx = 0
    /\ content = << >> /\ new_content = << >> /\ params_list = << >>
    /\ backup_path = NoBackup
    /\ files_fixed = << >> /\ modified_files = << >> /\ errors = << >>
    /\ success_count = 0
    /\ console = << >>
    /\ summary = NoSummary
    /\ exit_code = -1
    /\ attempted = {} /\ raised = {} /\ backed_up = {} /\ written = {}
    /\ unchanged = {} /\ torn = {}

(***************************************************************************)
(* File discovery and the pieces the three loops share                     *)
(***************************************************************************)
\* os.walk(workspace_dir), keeping *.ts and *.tsx
walk(t) == SelectSeq(AllPaths, LAMBDA p : p \in t)

\* base_path.rglob('**/[[]*/<name>')
rglob(t, name) == SelectSeq(AllPaths, LAMBDA p : p \in t /\ p.name = name)

\* find_files: route_files + page_files
find_files(t) == rglob(t, "route.ts") \o rglob(t, "page.tsx")

\* The statement a script's loop body starts with, and its summary.
FirstStep(sc) ==
    CASE sc = "fix_params" -> "fix_file:read"
      [] sc = "migrate-next15" -> "process_file:read"
      [] sc = "migrate-routes" -> "backup_file"
LoopPc(sc, i, n) == IF i <= n THEN FirstStep(sc) ELSE "summary"

\* Where the run continues after an exception raised while processing
\* files[i]: each script catches Exception inside its loop body, reports the
\* file and lets the loop go on to files[i + 1].  An exception that no
\* handler catches would end the process with a traceback instead.
fix_file_except(i, n) == LoopPc("fix_params", i + 1, n)
\* The loop body without its try/except: the exception leaves main.
next15_except_uncaught(i, n) == "traceback"
next15_except(i, n) == LoopPc("migrate-next15", i + 1, n)
routes_except(i, n) == LoopPc("migrate-routes", i + 1, n)

\* shutil.copy2(src, dst) into the backup directory: dst is created or replaced.
copy2(dir, dst, text) ==
    IF dst \in DOMAIN dir THEN [dir EXCEPT ![dst] = text] ELSE (dst :> text) @@ dir

\* create_backup: backup_dir / f"{file_path.name}_{timestamp}.bak"
create_backup_path(path, timestamp) ==
    [name |-> path.name, stamp |-> timestamp, ext |-> ".bak"]

\* backup_file: Path(backup_dir) / f"{file_path.name}_{timestamp}"
backup_file_path(path, timestamp) ==
    [name |-> path.name, stamp |-> timestamp, ext |-> ""]

\* The seconds datetime.now() may show at the next call.
Later(t) == {u \in t..(t + 1) : u <= MaxClock}

\* What is on disk when a write fails after open(path, 'w') truncated the
\* file: nothing, or a first part of the buffer.
PartialWrites(text) == { SubSeq(text, 1, k) : k \in {0, Len(text) \div 2} }

\* The loop moves on to the next file.
Advance(next_pc) ==
    /\ idx' = idx + 1
    /\ pc' = next_pc
    /\ content' = << >> /\ new_content' = << >> /\ params_list' = << >>
    /\ backup_path' = NoBackup

(***************************************************************************)
(* scripts/fix_params.py : main and fix_file                               *)
(***************************************************************************)
\* main, up to the loop: every .ts/.tsx file under workspace_dir is visited.
fix_params_main ==
    /\ pc = "main" /\ script = "fix_params"
    /\ files' = walk(tree)
    /\ idx' = 1
    /\ pc' = LoopPc(script, 1, Len(walk(tree)))
    /\ UNCHANGED << config, disk, backup_dir, backups, now, locals, files_fixed,
                    modified_files, errors, success_count, console, summary,
                    exit_code, history >>

\* The except clause of fix_file: the error goes to stderr and fix_file
\* returns (False, []), which main takes for "not modified".
fix_file_raise(msg) ==
    /\ raised' = raised \cup {[path |-> files[idx], error |-> msg]}
    /\ console' = Append(console, [path |-> files[idx], error |-> msg])
    /\ Advance(fix_file_except(idx, Len(files)))

\* open(filepath, 'r') and f.read(), then the rewrite.  When the text is not
\* changed fix_file returns (False, []).
fix_file_read ==
    /\ pc = "fix_file:read"
    /\ attempted' = attempted \cup {idx}
    /\ LET path == files[idx]
           text == disk[path]
           new == fix_params_rewrite(text, order)
       IN  IF new = text
           THEN /\ unchanged' = unchanged \cup {path}
                /\ Advance(LoopPc(script, idx + 1, Len(files)))
           ELSE /\ content' = text
                /\ new_content' = new
                /\ params_list' = find_params_usage(text, order)
                /\ pc' = "fix_file:open"
                /\ UNCHANGED << idx, backup_path, unchanged >>
    /\ UNCHANGED << config, disk, backup_dir, backups, now, files, files_fixed,
                    modified_files, errors, success_count, console, summary,
                    exit_code, raised, backed_up, written, torn >>

fix_file_read_fails ==
    /\ pc = "fix_file:read"
    /\ attempted' = attempted \cup {idx}
    /\ fix_file_raise("read")
    /\ UNCHANGED << config, disk, backup_dir, backups, now, files, files_fixed,
                    modified_files, errors, success_count, summary, exit_code,
                    backed_up, written, unchanged, torn >>

\* open(filepath, 'w'): the file is truncated.
fix_file_open ==
    /\ pc = "fix_file:open"
    /\ disk' = [disk EXCEPT ![files[idx]] = << >>]
    /\ written' = written \cup {files[idx]}
    /\ torn' = torn \cup {files[idx]}
    /\ pc' = "fix_file:write"
    /\ UNCHANGED << config, backup_dir, backups, now, files, idx, locals,
                    files_fixed, modified_files, errors, success_count, console,
                    summary, exit_code, attempted, raised, backed_up, unchanged >>

fix_file_open_fails ==
    /\ pc = "fix_file:open"
    /\ fix_file_raise("open")
    /\ UNCHANGED << config, disk, backup_dir, backups, now, files, files_fixed,
                    modified_files, errors, success_count, summary, exit_code,
                    attempted, backed_up, written, unchanged, torn >>

\* f.write(content) and the close: fix_file returns (True, params_list) and
\* main appends the file to files_fixed.
fix_file_write ==
    /\ pc = "fix_file:write"
    /\ disk' = [disk EXCEPT ![files[idx]] = new_content]
    /\ torn' = torn \ {files[idx]}
    /\ files_fixed' = Append(files_fixed, [path |-> files[idx], params |-> params_list])
    /\ Advance(LoopPc(script, idx + 1, Len(files)))
    /\ UNCHANGED << config, backup_dir, backups, now, files, modified_files,
                    errors, success_count, console, summary, exit_code,
                    attempted, raised, backed_up, written, unchanged >>

fix_file_write_fails ==
    /\ pc = "fix_file:write"
    /\ \E part \in PartialWrites(new_content) :
            disk' = [disk EXCEPT ![files[idx]] = part]
    /\ fix_file_raise("write")
    /\ UNCHANGED << config, backup_dir, backups, now, files, files_fixed,
                    modified_files, errors, success_count, summary, exit_code,
                    attempted, backed_up, written, unchanged, torn >>

\* "=== Summary of Fixes ===": the files modified and their params.
fix_params_summary ==
    /\ pc = "summary" /\ script = "fix_params"
    /\ summary' = [printed |-> TRUE,
                   modified |-> [k \in 1..Len(files_fixed) |-> files_fixed[k].path],
                   errors |-> << >>,
                   failed |-> 0]
    /\ pc' = "done"
    /\ exit_code' = 0
    /\ UNCHANGED << config, disk, backup_dir, backups, now, files, idx, locals,
                    files_fixed, modified_files, errors, success_count, console,
                    history >>

(***************************************************************************)
(* scripts/migrate-next15.py : main and process_file                       *)
(***************************************************************************)
\* main, up to the loop: the backup directory is made, then the app
\* directory is looked up (exit 1 without it) and the files are listed
\* (exit 0 without any).
next15_main ==
    /\ pc = "main" /\ script = "migrate-next15"
    /\ backup_dir' = TRUE
    /\ \E app_exists \in {e \in BOOLEAN : tree # {} => e} :
          IF ~app_exists
          THEN pc' = "exit" /\ exit_code' = 1 /\ UNCHANGED << files, idx >>
          ELSE IF find_files(tree) = << >>
          THEN pc' = "exit" /\ exit_code' = 0 /\ UNCHANGED << files, idx >>
          ELSE /\ files' = find_files(tree)
               /\ idx' = 1
               /\ pc' = FirstStep(script)
               /\ UNCHANGED exit_code
    /\ UNCHANGED << config, disk, backups, now, locals, files_fixed,
                    modified_files, errors, success_count, console, summary,
                    history >>

\* The except clause of main's loop: the error is printed and appended to
\* results["errors"].
next15_raise(msg) ==
    /\ raised' = raised \cup {[path |-> files[idx], error |-> msg]}
    /\ console' = Append(console, [path |-> files[idx], error |-> msg])
    /\ errors' = Append(errors, [path |-> files[idx], error |-> msg])
    /\ Advance(next15_except(idx, Len(files)))

\* process_file: the read and the rewrite chosen by the file's name.  When
\* the text is not changed the result is "unchanged".
process_file_read ==
    /\ pc = "process_file:read"
    /\ attempted' = attempted \cup {idx}
    /\ LET path == files[idx]
           text == disk[path]
           new == next15_rewrite(path.name, text)
       IN  IF new = text
           THEN /\ unchanged' = unchanged \cup {path}
                /\ Advance(LoopPc(script, idx + 1, Len(files)))
           ELSE /\ content' = text
                /\ new_content' = new
                /\ pc' = "create_backup"
                /\ UNCHANGED << idx, params_list, backup_path, unchanged >>
    /\ UNCHANGED << config, disk, backup_dir, backups, now, files, files_fixed,
                    modified_files, errors, success_count, console, summary,
                    exit_code, raised, backed_up, written, torn >>

process_file_read_fails ==
    /\ pc = "process_file:read"
    /\ attempted' = attempted \cup {idx}
    /\ next15_raise("read")
    /\ UNCHANGED << config, disk, backup_dir, backups, now, files, files_fixed,
                    modified_files, success_count, summary, exit_code,
                    backed_up, written, unchanged, torn >>

\* create_backup: the copy is named after the file's name and the second.
create_backup ==
    /\ pc = "create_backup"
    /\ \E t \in Later(now) :
          /\ now' = t
          /\ backup_path' = create_backup_path(files[idx], t)
          /\ backups' = copy2(backups, create_backup_path(files[idx], t),
                              disk[files[idx]])
    /\ backed_up' = backed_up \cup {files[idx]}
    /\ pc' = "process_file:open"
    /\ UNCHANGED << config, disk, backup_dir, files, idx, content, new_content,
                    params_list, files_fixed, modified_files, errors,
                    success_count, console, summary, exit_code, attempted,
                    raised, written, unchanged, torn >>

create_backup_fails ==
    /\ pc = "create_backup"
    /\ next15_raise("backup")
    /\ UNCHANGED << config, disk, backup_dir, backups, now, files, files_fixed,
                    modified_files, success_count, summary, exit_code,
                    attempted, backed_up, written, unchanged, torn >>

\* open(file_path, 'w'): the file is truncated.
process_file_open ==
    /\ pc = "process_file:open"
    /\ disk' = [disk EXCEPT ![files[idx]] = << >>]
    /\ written' = written \cup {files[idx]}
    /\ torn' = torn \cup {files[idx]}
    /\ pc' = "process_file:write"
    /\ UNCHANGED << config, backup_dir, backups, now, files, idx, locals,
                    files_fixed, modified_files, errors, success_count, console,
                    summary, exit_code, attempted, raised, backed_up, unchanged >>

process_file_open_fails ==
    /\ pc = "process_file:open"
    /\ next15_raise("open")
    /\ UNCHANGED << config, disk, backup_dir, backups, now, files, files_fixed,
                    modified_files, success_count, summary, exit_code,
                    attempted, backed_up, written, unchanged, torn >>

\* f.write(new_content) and the close; the result is "modified" and main
\* appends the file, with its backup, to results["modified_files"].
process_file_write ==
    /\ pc = "process_file:write"
    /\ disk' = [disk EXCEPT ![files[idx]] = new_content]
    /\ torn' = torn \ {files[idx]}
    /\ modified_files' =
          Append(modified_files,
                 [path |-> files[idx], backup |-> backup_path,
                  type |-> IF files[idx].name = "route.ts" THEN "route" ELSE "page"])
    /\ Advance(LoopPc(script, idx + 1, Len(files)))
    /\ UNCHANGED << config, backup_dir, backups, now, files, files_fixed, errors,
                    success_count, console, summary, exit_code, attempted,
                    raised, backed_up, written, unchanged >>

process_file_write_fails ==
    /\ pc = "process_file:write"
    /\ \E part \in PartialWrites(new_content) :
            disk' = [disk EXCEPT ![files[idx]] = part]
    /\ next15_raise("write")
    /\ UNCHANGED << config, backup_dir, backups, now, files, files_fixed,
                    modified_files, success_count, summary, exit_code,
                    attempted, backed_up, written, unchanged, torn >>

\* migration_results.json and the printed summary: the modified files with
\* their backups, and the errors, one line each.
next15_summary ==
    /\ pc = "summary" /\ script = "migrate-next15"
    /\ summary' = [printed |-> TRUE,
                   modified |-> [k \in 1..Len(modified_files) |-> modified_files[k].path],
                   errors |-> errors,
                   failed |-> Len(errors)]
    /\ pc' = "done"
    /\ exit_code' = 0
    /\ UNCHANGED << config, disk, backup_dir, backups, now, files, idx, locals,
                    files_fixed, modified_files, errors, success_count, console,
                    history >>

(***************************************************************************)
(* scripts/migrate-routes.py : main                                        *)
(***************************************************************************)
\* main, up to the loop: the app directory is looked up (exit 1 without it),
\* the backup directory is made, the route files are listed (exit 1 without
\* any) and the user is asked to confirm (exit 0 on anything but "y").
routes_main ==
    /\ pc = "main" /\ script = "migrate-routes"
    /\ \E app_exists \in {e \in BOOLEAN : tree # {} => e}, confirmed \in BOOLEAN :
          IF ~app_exists
          THEN pc' = "exit" /\ exit_code' = 1 /\ UNCHANGED << backup_dir, files, idx >>
          ELSE /\ backup_dir' = TRUE
               /\ IF rglob(tree, "route.ts") = << >>
                  THEN pc' = "exit" /\ exit_code' = 1 /\ UNCHANGED << files, idx >>
                  ELSE /\ files' = rglob(tree, "route.ts")
                       /\ IF confirmed
                          THEN pc' = FirstStep(script) /\ idx' = 1
                                  /\ UNCHANGED exit_code
                          ELSE pc' = "exit" /\ exit_code' = 0 /\ UNCHANGED idx
    /\ UNCHANGED << config, disk, backups, now, locals, files_fixed,
                    modified_files, errors, success_count, console, summary,
                    history >>

\* The except clause of main's loop: the error is printed, nothing is kept.
routes_raise(msg) ==
    /\ raised' = raised \cup {[path |-> files[idx], error |-> msg]}
    /\ console' = Append(console, [path |-> files[idx], error |-> msg])
    /\ Advance(routes_except(idx, Len(files)))

\* backup_file(file_path, backup_dir): the first statement of the loop body,
\* in every mode.
backup_file ==
    /\ pc = "backup_file"
    /\ attempted' = attempted \cup {idx}
    /\ \E t \in Later(now) :
          /\ now' = t
          /\ backups' = copy2(backups, backup_file_path(files[idx], t),
                              disk[files[idx]])
    /\ backed_up' = backed_up \cup {files[idx]}
    /\ pc' = "routes:process_file"
    /\ UNCHANGED << config, disk, backup_dir, files, idx, locals, files_fixed,
                    modified_files, errors, success_count, console, summary,
                    exit_code, raised, written, unchanged, torn >>

backup_file_fails ==
    /\ pc = "backup_file"
    /\ attempted' = attempted \cup {idx}
    /\ routes_raise("backup")
    /\ UNCHANGED << config, disk, backup_dir, backups, now, files, files_fixed,
                    modified_files, errors, success_count, summary, exit_code,
                    backed_up, written, unchanged, torn >>

\* process_file(file_path): the read and the four substitutions.
routes_process_file ==
    /\ pc = "routes:process_file"
    /\ LET text == disk[files[idx]]
           new == routes_rewrite(text)
       IN  /\ content' = text
           /\ new_content' = new
           /\ unchanged' = IF new = text THEN unchanged \cup {files[idx]}
                           ELSE unchanged
    /\ pc' = IF dry_run THEN "routes:diff" ELSE "routes:open"
    /\ UNCHANGED << config, disk, backup_dir, backups, now, files, idx,
                    params_list, backup_path, files_fixed, modified_files,
                    errors, success_count, console, summary, exit_code,
                    attempted, raised, backed_up, written, torn >>

routes_process_file_fails ==
    /\ pc = "routes:process_file"
    /\ routes_raise("read")
    /\ UNCHANGED << config, disk, backup_dir, backups, now, files, files_fixed,
                    modified_files, errors, success_count, summary, exit_code,
                    attempted, backed_up, written, unchanged, torn >>

\* --dry-run: the file is read again and the unified diff is printed.
routes_diff ==
    /\ pc = "routes:diff"
    /\ success_count' = success_count + 1
    /\ Advance(LoopPc(script, idx + 1, Len(files)))
    /\ UNCHANGED << config, disk, backup_dir, backups, now, files, files_fixed,
                    modified_files, errors, console, summary, exit_code,
                    history >>

routes_diff_fails ==
    /\ pc = "routes:diff"
    /\ routes_raise("read")
    /\ UNCHANGED << config, disk, backup_dir, backups, now, files, files_fixed,
                    modified_files, errors, success_count, summary, exit_code,
                    attempted, backed_up, written, unchanged, torn >>

\* open(file_path, 'w'): the file is truncated, changed or not.
routes_open ==
    /\ pc = "routes:open"
    /\ disk' = [disk EXCEPT ![files[idx]] = << >>]
    /\ written' = written \cup {files[idx]}
    /\ torn' = torn \cup {files[idx]}
    /\ pc' = "routes:write"
    /\ UNCHANGED << config, backup_dir, backups, now, files, idx, locals,
                    files_fixed, modified_files, errors, success_count, console,
                    summary, exit_code, attempted, raised, backed_up, unchanged >>

routes_open_fails ==
    /\ pc = "routes:open"
    /\ routes_raise("open")
    /\ UNCHANGED << config, disk, backup_dir, backups, now, files, files_fixed,
                    modified_files, errors, success_count, summary, exit_code,
                    attempted, backed_up, written, unchanged, torn >>

\* f.write(new_content) and the close.
routes_write ==
    /\ pc = "routes:write"
    /\ disk' = [disk EXCEPT ![files[idx]] = new_content]
    /\ torn' = torn \ {files[idx]}
    /\ success_count' = success_count + 1
    /\ Advance(LoopPc(script, idx + 1, Len(files)))
    /\ UNCHANGED << config, backup_dir, backups, now, files, files_fixed,
                    modified_files, errors, console, summary, exit_code,
                    attempted, raised, backed_up, written, unchanged >>

routes_write_fails ==
    /\ pc = "routes:write"
    /\ \E part \in PartialWrites(new_content) :
            disk' = [disk EXCEPT ![files[idx]] = part]
    /\ routes_raise("write")
    /\ UNCHANGED << config, backup_dir, backups, now, files, files_fixed,
                    modified_files, errors, success_count, summary, exit_code,
                    attempted, backed_up, written, unchanged, torn >>

\* "Migration Summary": the three counts and the backup directory.
routes_summary ==
    /\ pc = "summary" /\ script = "migrate-routes"
    /\ summary' = [printed |-> TRUE,
                   modified |-> << >>,
                   errors |-> << >>,
                   failed |-> Len(files) - success_count]
    /\ pc' = "done"
    /\ exit_code' = 0
    /\ UNCHANGED << config, disk, backup_dir, backups, now, files, idx, locals,
                    files_fixed, modified_files, errors, success_count, console,
                    history >>

(***************************************************************************)
(* The specification                                                       *)
(***************************************************************************)
Next ==
    \/ fix_params_main \/ fix_file_read \/ fix_file_read_fails
    \/ fix_file_open \/ fix_file_open_fails
    \/ fix_file_write \/ fix_file_write_fails \/ fix_params_summary
    \/ next15_main \/ process_file_read \/ process_file_read_fails
    \/ create_backup \/ create_backup_fails
    \/ process_file_open \/ process_file_open_fails
    \/ process_file_write \/ process_file_write_fails \/ next15_summary
    \/ routes_main \/ backup_file \/ backup_file_fails
    \/ routes_process_file \/ routes_process_file_fails
    \/ routes_diff \/ routes_diff_fails
    \/ routes_open \/ routes_open_fails
    \/ routes_write \/ routes_write_fails \/ routes_summary

Spec == Init /\ [][Next]_vars

(***************************************************************************)
(* Properties                                                              *)
(***************************************************************************)
\* The script's rewrite of a text, as the current file would get it.
RewriteOf(text) ==
    CASE script = "fix_params" -> fix_params_rewrite(text, order)
      [] script = "migrate-next15" -> next15_rewrite(files[idx].name, text)
      [] script = "migrate-routes" -> routes_rewrite(text)

\* The distinct names of a list, each at its first occurrence.
RECURSIVE FirstSeen(_)
FirstSeen(q) ==
    IF q = << >> THEN << >>
    ELSE LET init == FirstSeen(SubSeq(q, 1, Len(q) - 1))
         IN  IF q[Len(q)] \in Range(init) THEN init ELSE Append(init, q[Len(q)])

\* C1: in a mutating run, a file whose rewritten text equals the text read
\* from disk gets no backup copy and is not written.
C1_UnchangedFileUntouched ==
    ~dry_run => \A p \in unchanged : p \notin backed_up /\ p \notin written

\* C2: at the end of a migrate-next15 run every file reported as modified has
\* its pre-run content at its recorded backup path, and no two modified files
\* share a backup path.
C2_OneBackupPerModifiedFile ==
    (pc = "done" /\ script = "migrate-next15") =>
        /\ \A k \in 1..Len(modified_files) :
              /\ modified_files[k].backup \in DOMAIN backups
              /\ backups[modified_files[k].backup] = disk0[modified_files[k].path]
        /\ \A j, k \in 1..Len(modified_files) :
              j # k => modified_files[j].backup # modified_files[k].backup

\* C3: a file that was opened for writing and whose new text is not fully on
\* disk (the write is under way, or it failed) is recoverable: the file still
\* holds its original content, or a backup of that file holds it.
C3_OriginalRecoverable ==
    \A p \in torn :
        \/ disk[p] = disk0[p]
        \/ \E b \in DOMAIN backups : b.name = p.name /\ backups[b] = disk0[p]

\* C4: rewriting the rewritten text again changes nothing.
C4_RewriteIdempotent ==
    new_content # << >> => RewriteOf(new_content) = new_content

\* C5: at the end of the run the summary names every file whose processing
\* raised an error, with the error's message.
C5_ErrorsInSummary ==
    pc = "done" =>
        \A r \in raised : \E k \in 1..Len(summary.errors) : summary.errors[k] = r

\* The statements of the three loop bodies.
LoopSteps ==
    { "fix_file:read", "fix_file:open", "fix_file:write",
      "process_file:read", "create_backup", "process_file:open",
      "process_file:write",
      "backup_file", "routes:process_file", "routes:diff", "routes:open",
      "routes:write" }

\* C6: an exception raised while a file is processed never ends the run: the
\* exception does not leave the loop (the run is at a file of the list, at
\* the summary or past it), and when the run is done the summary has been
\* printed and every file of the list has been processed.
C6_FailureIsolation ==
    /\ pc # "traceback"
    /\ raised # {} =>
          \/ pc \in LoopSteps /\ idx \in 1..Len(files)
          \/ pc = "summary" /\ idx = Len(files) + 1
          \/ pc = "done"
    /\ pc = "done" => summary.printed /\ attempted = 1..Len(files)

\* C6, witness: the first of two files raised, the second was processed and
\* written, and the summary was printed.
C6_Witness ==
    /\ pc = "done" /\ summary.printed
    /\ Len(files) = 2
    /\ \E r \in raised : r.path = files[1]
    /\ 2 \in attempted /\ files[2] \in written /\ disk[files[2]] # disk0[files[2]]

\* C7: the list of names fix_file extracts is in first-seen order, and a run
\* under any other hash salt extracts the same list and writes the same text.
C7_BindingOrderDeterministic ==
    pc = "fix_file:open" =>
        /\ params_list = FirstSeen(FindAllUsage(content, 1))
        /\ \A o \in HashOrders :
              /\ find_params_usage(content, o) = params_list
              /\ fix_params_rewrite(content, o) = new_content

\* C8: a run started with --dry-run creates and modifies no file: the source
\* files keep their content and the backup directory holds no file.
C8_DryRunWritesNothing ==
    dry_run => disk = disk0 /\ DOMAIN backups = {}

\* C9: in the server rewrite the extraction statement occurs exactly once, and
\* it stands after the opening brace of the body of the function whose
\* signature was rewritten.
C9_ExtractionInsideBody ==
    (pc = "fix_file:open" /\ ~is_client_component(content)) =>
        LET decl == params_decl(params_list)
            at == {k \in 1..Len(new_content) : IsAt(new_content, decl, k)}
            sig == SearchFrom([k \in 1..Len(new_content) |-> RE_func(new_content, k)], 1)
            body == RE_func_open(new_content, sig)
        IN  /\ Cardinality(at) = 1
            /\ body > 0
            /\ \A k \in at : k >= body

\* C10: after the client rewrite inserted the hook call and the bindings,
\* every name is still bound from the parameter bag, never from itself.
C10_BindingsIntact ==
    (/\ pc = "fix_file:open"
     /\ is_client_component(content)
     /\ ~has_params_declaration(add_use_params_import(content))) =>
        \A n \in Range(params_list) :
            /\ Contains(new_content,
                        << "const", " ", n, " ", "=", " ", "params", "?.", n >>)
            /\ ~Contains(new_content, << "const", " ", n, " ", "=", " ", n >>)

=============================================================================
